---------------------------- MODULE Spec2Model ----------------------------
(***************************************************************************)
(* A model of the CozoDB connection pool (src/src/cozodb/connection_pool.rs)*)
(* and of the Connections it lends (src/src/cozodb/connection.rs), of the   *)
(* streaming cursor QueryStream (src/src/cozodb/query.rs) and of the batch  *)
(* execution and the connect of the mock provider                           *)
(* (src/src/layer1/traits/implementations/database.rs).  The pool, the      *)
(* record operations of one Connection, the cursor, the batch and connect   *)
(* share no state; each has its own specifications.                         *)
(*                                                                         *)
(* Callers are concurrent tasks sharing one CozoConnectionPool.  A step of *)
(* the model is one critical section of the code: the span during which a  *)
(* task holds one of the pool's RwLocks (available_connections,            *)
(* all_connections, pool_info, health_status).  Code that touches only     *)
(* task-local data is folded into the critical section that follows it.    *)
(***************************************************************************)
EXTENDS Integers, Sequences, FiniteSets, TLC

(***************************************************************************)
(* Bounds of the model.                                                    *)
(***************************************************************************)
\* Largest ConnectionPoolConfig.max_connections a run is configured with.
MaxPoolSize == 2
\* Number of concurrent caller tasks.
NumCallers == 2
\* Cap on the number of acquire_connection calls started.
MaxAcquires == 3
\* Cap on the number of simulate_database_recovery calls started.
MaxRecoveries == 1
\* Cap on the number of health checks that exceed connection_timeout.
MaxProbeFailures == 2

\* Cap on the number of performance_metrics calls made in a row.
MaxMetricsCalls == 2
\* Longest record list a QueryStream is built over.
MaxRecords == 2
\* Longest QueryStream timeout, in ticks of the clock.
MaxTimeout == 2
\* Last tick of the clock.
MaxClock == 3
\* Cap on the number of calls to next() on the QueryStream.
MaxPolls == 4
\* Largest number of operations handed to execute_batch.
MaxOperations == 4
\* Resolution of the failure rate and of the random samples: both are
\* multiples of 1 / RateScale.
RateScale == 4
\* Cap on HealthStatus.error_count: no probe fails beyond it.
MaxErrorCount == 4
\* Calls made on the CozoConnection under test.
MaxCalls == 3
\* Concurrent connect() calls on the MockDatabaseProvider under test.
NumConnectTasks == 3
\* Largest limit given to with_max_connections.
MaxProviderConnections == 2
\* QueryStream::new_mock(100) in stream_records.
MockStreamCount == 100
\* timeout: Duration::from_secs(30) in new_mock, in ticks of the clock.
MockTimeout == 30

Callers == 1..NumCallers

\* The tasks that call connect() on the shared MockDatabaseProvider.
ConnectTasks == 1..NumConnectTasks

\* Connection identities.  uuid::Uuid::new_v4 gives every Connection an id
\* no other Connection has; the code only compares ids for equality, so the
\* model names a new Connection by the least id no live handle carries.
ConnIds == 1..(2 * MaxPoolSize + MaxAcquires + NumCallers + MaxProbeFailures)

\* No Connection (Option::None / a moved-out handle).
NoConn == 0

(***************************************************************************)
(* usize arithmetic.  The counters of PoolInfo are usize: `x -= 1` at 0    *)
(* panics in a build with overflow checks and wraps otherwise.  The word   *)
(* is 64 bits wide in the code; the model wraps at 2^16, far above every   *)
(* count a bounded run reaches, so a wrapped value stays recognisable.     *)
(***************************************************************************)
UsizeModulus == 2^16

SubOverflows(x) == x = 0

AddOverflows(x) == x = UsizeModulus - 1

WrappingSub1(x) == (x + UsizeModulus - 1) % UsizeModulus

WrappingAdd1(x) == (x + 1) % UsizeModulus

VARIABLES
    max_connections,        \* config.max_connections
    overflow_checks,        \* build profile, once an overflow has shown it:
                            \* "unobserved" | "panic" | "wrap"
    pool_state,             \* "unconstructed" | "ready" | "failed"
    available_connections,  \* Vec<CozoConnection>, as a sequence of ids
    all_connections,        \* Vec<CozoConnection>, as a sequence of ids
    pool_info,              \* PoolInfo counters
    health_status,          \* the pool-healthy flag
    available_lock,         \* "free" | "held" | "deadlocked" | "poisoned"
    pool_info_lock,         \* "free" | "poisoned"
    pc,                     \* per caller: position inside the current call
    conn,                   \* per caller: the Connection local to the call
    idx,                    \* per caller: loop index of initialize_pool
    held,                   \* per caller: handles held, id -> count
    returned,               \* what the call that ended in the last step returned
    mon_pc,                 \* health monitor: position in its cycle
    available_count,        \* health monitor: local available_count
    total_count,            \* health monitor: local total_count
    acquires,               \* number of acquire_connection calls started
    recoveries,             \* number of simulate_database_recovery calls started
    probe_failures,         \* number of health checks that timed out
    database,               \* the simulated database, as the test hooks left it:
                            \* "up" | "down" | "recovering" | "recovered" |
                            \* "recovered_busy"
    stream,                 \* the QueryStream under test, NoStream before it is built
    now,                    \* the monotonic clock Instant::now() reads
    polled,                 \* what the calls to next() returned, in call order
    batch,                  \* the locals of the execute_batch call under test
    stats,                  \* the ConnectionStats of the CozoConnection under test
    last_activity,          \* its last_activity, a reading of the clock
    calls,                  \* the calls made on it and what they returned, in order
    health,                 \* its HealthStatus
    health_checked,         \* its last health_check: the probe, the timing, the result
    provider,               \* the MockDatabaseProvider under test
    connect                 \* per task: position inside its connect() call, and
                            \* what the call returned

poolVars == <<pool_state, available_connections, all_connections, pool_info,
              health_status, available_lock, pool_info_lock>>

callerVars == <<pc, conn, idx, held>>

monitorVars == <<mon_pc, available_count, total_count>>

historyVars == <<acquires, recoveries, probe_failures, database>>

cursorVars == <<stream, now, polled>>

connectionVars == <<stats, last_activity, calls, health, health_checked>>

providerVars == <<provider, connect>>

\* What no operation of the pool touches: the cursor, the batch, the
\* CozoConnection a caller works on and the mock provider.
componentVars == <<cursorVars, batch, connectionVars, providerVars>>

vars == <<max_connections, overflow_checks, poolVars, callerVars, returned,
          monitorVars, historyVars, componentVars>>


(***************************************************************************)
(* Data helpers.                                                           *)
(***************************************************************************)
\* PoolInfo::new: everything idle, nothing active.
PoolInfoNew(pool_size) ==
    [pool_size          |-> pool_size,
     active_connections |-> 0,
     idle_connections   |-> pool_size,
     total_acquired     |-> 0,
     total_released     |-> 0]

\* Vec::pop: the vector without its last element.
Pop(v) == SubSeq(v, 1, Len(v) - 1)

\* Vec::last on a non-empty vector.
Last(v) == v[Len(v)]

\* A push that drops the element instead of storing it.
PushNothing(v, x) == v

\* Vec::push.
Push(v, x) == Append(v, x)

\* iter().position(|c| c.id == id): index of the first match, 0 for None.
Position(v, id) ==
    IF \E i \in 1..Len(v) : v[i] = id
    THEN CHOOSE i \in 1..Len(v) : v[i] = id /\ \A j \in 1..(i - 1) : v[j] # id
    ELSE 0

\* The set of ids in a vector.
Ids(v) == {v[i] : i \in 1..Len(v)}

\* No caller holds anything.
NoHandles == [id \in ConnIds |-> 0]

\* A caller's handles after receiving or giving away one handle to `id`.
HeldAdd(h, id) == [h EXCEPT ![id] = @ + 1]

HeldRemove(h, id) == [h EXCEPT ![id] = @ - 1]

\* Number of handles a caller holds.
RECURSIVE SumUpTo(_, _)
SumUpTo(h, n) == IF n = 0 THEN 0 ELSE h[n] + SumUpTo(h, n - 1)

HandleCount(h) == SumUpTo(h, Cardinality(ConnIds))

\* The ids some handle still carries: in a vector, held by a caller, or local
\* to a call in progress.
LiveIds ==
    Ids(all_connections) \cup Ids(available_connections)
        \cup {id \in ConnIds : \E c \in Callers : held[c][id] > 0 \/ conn[c] = id}

\* connection_id of CozoConnection::new: uuid::Uuid::new_v4().
FreshId == CHOOSE id \in ConnIds \ LiveIds : \A other \in ConnIds \ LiveIds : id <= other

(***************************************************************************)
(* CozoConnection::health_check and is_healthy.  The probe itself is the   *)
(* placeholder `let is_healthy = true`; the check fails only by exceeding  *)
(* connection_timeout, which is up to the scheduler: `timed_out` is an     *)
(* input of every check.                                                   *)
(***************************************************************************)
Probe == TRUE

\* health_check returns Ok(()) unless start_time.elapsed() > connection_timeout.
HealthCheckOk(timed_out) == ~timed_out

\* connection.is_healthy().await.unwrap_or(false), as the pool evaluates it.
IsHealthyOrFalse(timed_out) == HealthCheckOk(timed_out) /\ Probe

\* CozoConnection::new returns Ok iff its initial health check does.
ConnectionNewOk(timed_out) == HealthCheckOk(timed_out)

\* The inputs a health check may draw: a timeout only within the budget.
ProbeInputs == {t \in BOOLEAN : t => probe_failures < MaxProbeFailures}

ProbeCount(timed_out) == IF timed_out THEN probe_failures + 1 ELSE probe_failures

(***************************************************************************)
(* The counter updates of acquire_connection and release_connection, each  *)
(* a run of three statements under the pool_info write lock.  A statement  *)
(* that overflows panics (overflow checks on), leaving the statements      *)
(* before it applied, or wraps.                                            *)
(***************************************************************************)
\* What an overflowing statement may do in this run: the profile is a fact
\* of the build, fixed from the first overflow on.
OverflowModes ==
    IF overflow_checks = "unobserved" THEN {"panic", "wrap"} ELSE {overflow_checks}

\* active_connections += 1; idle_connections -= 1; total_acquired += 1
AcquireCounters(info, mode) ==
    IF AddOverflows(info.active_connections) /\ mode = "panic"
    THEN [panic |-> TRUE, overflow |-> TRUE, info |-> info]
    ELSE LET i1 == [info EXCEPT !.active_connections = WrappingAdd1(@)] IN
         IF SubOverflows(i1.idle_connections) /\ mode = "panic"
         THEN [panic |-> TRUE, overflow |-> TRUE, info |-> i1]
         ELSE [panic |-> FALSE,
               overflow |-> AddOverflows(info.active_connections)
                               \/ SubOverflows(i1.idle_connections),
               info  |-> [i1 EXCEPT !.idle_connections = WrappingSub1(@),
                                    !.total_acquired = @ + 1]]

\* A release that forgets `idle_connections += 1`: the round trip of acquire
\* and release must tell it from the code's.
ReleaseCountersWithoutIdle(info, mode) ==
    IF SubOverflows(info.active_connections) /\ mode = "panic"
    THEN [panic |-> TRUE, overflow |-> TRUE, info |-> info]
    ELSE [panic |-> FALSE,
          overflow |-> SubOverflows(info.active_connections),
          info  |-> [info EXCEPT !.active_connections = WrappingSub1(@),
                                 !.total_released = @ + 1]]

\* active_connections -= 1; idle_connections += 1; total_released += 1
ReleaseCounters(info, mode) ==
    IF SubOverflows(info.active_connections) /\ mode = "panic"
    THEN [panic |-> TRUE, overflow |-> TRUE, info |-> info]
    ELSE LET i1 == [info EXCEPT !.active_connections = WrappingSub1(@)] IN
         IF AddOverflows(i1.idle_connections) /\ mode = "panic"
         THEN [panic |-> TRUE, overflow |-> TRUE, info |-> i1]
         ELSE [panic |-> FALSE,
               overflow |-> SubOverflows(info.active_connections)
                               \/ AddOverflows(i1.idle_connections),
               info  |-> [i1 EXCEPT !.idle_connections = WrappingAdd1(@),
                                    !.total_released = @ + 1]]

\* The profile as known after a counter update ran in `mode`.
ObservedMode(counted, mode) == IF counted.overflow THEN mode ELSE overflow_checks

(***************************************************************************)
(* What a call returns to its caller.  `returned` holds the value of the   *)
(* call that ended in the last step, NoResult when that step ended none.   *)
(***************************************************************************)
NoResult ==
    [op |-> "none", outcome |-> "none", used |-> 0, limit |-> 0, checked |-> FALSE]

\* Ok(connection) from acquire_connection; `checked`: is_healthy ran in the call.
AcquireOk(checked) ==
    [op |-> "acquire", outcome |-> "ok", used |-> 0, limit |-> 0,
     checked |-> checked]

\* CozoError::resource_limit_exhausted("connections", used, limit).
ResourceLimitExhausted(used, limit) ==
    [op |-> "acquire", outcome |-> "ResourceLimitExhausted", used |-> used,
     limit |-> limit, checked |-> FALSE]

\* CozoError::connection_failed("Health check timeout"), propagated by `?`.
ConnectionFailed(op) ==
    [op |-> op, outcome |-> "ConnectionFailed", used |-> 0, limit |-> 0,
     checked |-> FALSE]

\* Ok(()) from release_connection and the simulate_* hooks, Ok(pool) from new.
UnitOk(op) ==
    [op |-> op, outcome |-> "ok", used |-> 0, limit |-> 0, checked |-> FALSE]

\* The task panicked: `.unwrap()` on a poisoned lock, or an overflow.
Panicked(op) ==
    [op |-> op, outcome |-> "panic", used |-> 0, limit |-> 0, checked |-> FALSE]

(***************************************************************************)
(* Init: the struct literal of CozoConnectionPool::new, before             *)
(* initialize_pool runs, for a configuration of 1..MaxPoolSize connections.*)
(***************************************************************************)
PoolInit ==
    /\ max_connections \in 1..MaxPoolSize
    /\ overflow_checks = "unobserved"
    /\ pool_state = "unconstructed"
    /\ available_connections = <<>>
    /\ all_connections = <<>>
    /\ pool_info = PoolInfoNew(max_connections)
    /\ health_status = TRUE
    /\ available_lock = "free"
    /\ pool_info_lock = "free"
    /\ pc = [c \in Callers |-> "idle"]
    /\ conn = [c \in Callers |-> NoConn]
    /\ idx = [c \in Callers |-> 0]
    /\ held = [c \in Callers |-> NoHandles]
    /\ returned = NoResult
    /\ mon_pc = "off"
    /\ available_count = 0
    /\ total_count = 0
    /\ acquires = 0
    /\ recoveries = 0
    /\ probe_failures = 0
    /\ database = "up"

\* No QueryStream is under test.
NoStream == [records |-> <<>>, position |-> 0, created_at |-> 0, timeout |-> 0]

CursorUnused ==
    /\ stream = NoStream
    /\ now = 0
    /\ polled = <<>>

\* No execute_batch call is under test.
NoBatch ==
    [pc |-> "unused", total_operations |-> 0, failure_rate |-> 0, index |-> 0,
     successful_operations |-> 0, failed_operations |-> 0, errors |-> <<>>,
     outcomes |-> <<>>]

BatchUnused == batch = NoBatch

\* ConnectionStats::default()
ConnectionStatsDefault ==
    [queries_executed |-> 0, records_inserted |-> 0, records_updated |-> 0,
     records_queried |-> 0]

\* The CozoConnection under test as CozoConnection::new leaves it at time 0,
\* no call made on it.
\* The HealthStatus literal of CozoConnection::new, built at time `at`.
HealthStatusNew(at) ==
    [is_healthy |-> TRUE, last_check |-> at, error_count |-> 0,
     last_error |-> "None"]

\* No health_check has been looked at.
NoCheck == [is_healthy |-> TRUE, timed_out |-> FALSE, result |-> "none"]

ConnectionUnused ==
    /\ stats = ConnectionStatsDefault
    /\ last_activity = 0
    /\ calls = <<>>
    /\ health = HealthStatusNew(0)
    /\ health_checked = NoCheck

\* MockDatabaseProvider::new followed by with_failure_rate (already clamped)
\* and with_max_connections: no connection tracked.
MockDatabaseProvider(connection_string, failure_rate, max) ==
    [connection_string |-> connection_string, connections |-> <<>>,
     failure_rate |-> failure_rate, max_connections |-> max]

\* No connect() call made: the locals of a task that has not called.
NotConnecting == [pc |-> "idle", returned |-> "none", id |-> 0]

\* No provider is under test.
ProviderUnused ==
    /\ provider = MockDatabaseProvider(<<>>, 0, 0)
    /\ connect = [t \in ConnectTasks |-> NotConnecting]

\* The pool under test; no cursor, no batch, no call on a Connection and no
\* provider beside it.
Init ==
    PoolInit /\ CursorUnused /\ BatchUnused /\ ConnectionUnused /\ ProviderUnused

\* An initialize_pool whose loop stops one iteration early.
FreshIdsOneShort(n) == [i \in 1..(n - 1) |-> i]

\* The Connections initialize_pool creates in `n` iterations on an empty pool.
FreshIds(n) == [i \in 1..n |-> i]

\* idle_connections as initialize_pool leaves it.
InitializedIdle(info) == [info EXCEPT !.idle_connections = max_connections]

(***************************************************************************)
(* CozoConnectionPool::new after the struct literal: initialize_pool, then *)
(* the health monitor is spawned and the pool returned.  Nothing else can  *)
(* reach the pool before new returns, so construction is one step.  The    *)
(* (k+1)-th CozoConnection::new may fail; `?` then aborts construction.    *)
(***************************************************************************)
\* A new that spawns the health monitor before initialize_pool has returned.
MonitorSpawnedFirst(initialized) == "tick"

\* The monitor task after new: spawned (lines 92-96) once initialize_pool has
\* returned Ok, never when line 90 returned its error.
MonitorSpawned(initialized) == IF initialized THEN "tick" ELSE "off"

New ==
    /\ pool_state = "unconstructed"
    /\ \E timed_out \in ProbeInputs :
        /\ probe_failures' = ProbeCount(timed_out)
        /\ IF ConnectionNewOk(timed_out)
           THEN /\ all_connections' = FreshIds(max_connections)
                /\ available_connections' = FreshIds(max_connections)
                /\ pool_info' = InitializedIdle(pool_info)
                /\ pool_state' = "ready"
                /\ mon_pc' = MonitorSpawned(TRUE)
                /\ returned' = UnitOk("new")
           ELSE \E k \in 0..(max_connections - 1) :
                /\ all_connections' = FreshIds(k)
                /\ available_connections' = FreshIds(k)
                /\ pool_state' = "failed"
                /\ mon_pc' = MonitorSpawned(FALSE)
                /\ returned' = ConnectionFailed("new")
                /\ UNCHANGED pool_info
    /\ UNCHANGED <<max_connections, componentVars, overflow_checks,
                   health_status, available_lock, pool_info_lock, callerVars,
                   available_count, total_count, acquires, recoveries, database>>


\* write()/read() on the available_connections lock returns (Ok or poisoned);
\* while another task holds it for good the caller stays blocked.
AvailableLockReturns == available_lock \in {"free", "poisoned"}

(***************************************************************************)
(* acquire_connection, first attempt (lines 130-148): one critical section *)
(* under the available_connections write lock, which stays held across the *)
(* health check and the counter update.                                    *)
(***************************************************************************)
AcquireFirst(c) ==
    /\ pool_state = "ready"
    /\ pc[c] = "idle"
    /\ acquires < MaxAcquires
    /\ AvailableLockReturns
    /\ acquires' = acquires + 1
    /\ IF available_lock = "poisoned"
       THEN /\ pc' = [pc EXCEPT ![c] = "panicked"]
            /\ returned' = Panicked("acquire")
            /\ UNCHANGED <<available_connections, pool_info, available_lock,
                           pool_info_lock, conn, held, probe_failures,
                           overflow_checks>>
       ELSE IF available_connections = <<>>
       THEN /\ pc' = [pc EXCEPT ![c] = "acq_wait"]
            /\ returned' = NoResult
            /\ UNCHANGED <<available_connections, pool_info, available_lock,
                           pool_info_lock, conn, held, probe_failures,
                           overflow_checks>>
       ELSE \E timed_out \in ProbeInputs, mode \in OverflowModes :
            LET connection == Last(available_connections)
                counted    == AcquireCounters(pool_info, mode)
            IN  /\ available_connections' = Pop(available_connections)
                /\ probe_failures' = ProbeCount(timed_out)
                /\ IF ~IsHealthyOrFalse(timed_out)
                   THEN \* replace_unhealthy_connection runs with the lock held
                        /\ pc' = [pc EXCEPT ![c] = "acq_replace"]
                        /\ conn' = [conn EXCEPT ![c] = connection]
                        /\ returned' = NoResult
                        /\ available_lock' = "held"
                        /\ UNCHANGED <<pool_info, pool_info_lock, held,
                                       overflow_checks>>
                   ELSE IF pool_info_lock = "poisoned"
                   THEN \* pool_info.write().unwrap() panics, the guard is dropped
                        /\ pc' = [pc EXCEPT ![c] = "panicked"]
                        /\ returned' = Panicked("acquire")
                        /\ available_lock' = "poisoned"
                        /\ UNCHANGED <<pool_info, pool_info_lock, conn, held,
                                       overflow_checks>>
                   ELSE IF counted.panic
                   THEN /\ pool_info' = counted.info
                        /\ overflow_checks' = ObservedMode(counted, mode)
                        /\ pc' = [pc EXCEPT ![c] = "panicked"]
                        /\ returned' = Panicked("acquire")
                        /\ available_lock' = "poisoned"
                        /\ pool_info_lock' = "poisoned"
                        /\ UNCHANGED <<conn, held>>
                   ELSE /\ pool_info' = counted.info
                        /\ overflow_checks' = ObservedMode(counted, mode)
                        /\ held' = [held EXCEPT ![c] = HeldAdd(@, connection)]
                        /\ returned' = AcquireOk(TRUE)
                        /\ UNCHANGED <<pc, conn, available_lock, pool_info_lock>>
    /\ UNCHANGED <<max_connections, componentVars, pool_state, all_connections, health_status, idx, monitorVars,
                   recoveries, database>>

\* The vector replace_unhealthy_connection leaves in all_connections.
SwapIn(v, old, new) ==
    IF Position(v, old) # 0 THEN [v EXCEPT ![Position(v, old)] = new] ELSE v

\* What write() does when the calling task already holds the write guard:
\* std documents that it may deadlock or panic.
RelockOutcomes == {"deadlocked", "poisoned"}

(***************************************************************************)
(* replace_unhealthy_connection called from acquire_connection (line 145), *)
(* the available_connections write guard of line 131 still alive.          *)
(***************************************************************************)
AcquireReplace(c) ==
    /\ pc[c] = "acq_replace"
    /\ \E timed_out \in ProbeInputs :
        /\ probe_failures' = ProbeCount(timed_out)
        /\ IF ConnectionNewOk(timed_out)
           THEN /\ all_connections' = SwapIn(all_connections, conn[c], FreshId)
                /\ \E outcome \in RelockOutcomes :
                    /\ available_lock' = outcome
                    /\ pc' = [pc EXCEPT ![c] =
                                IF outcome = "deadlocked" THEN "deadlocked" ELSE "panicked"]
                    /\ returned' = IF outcome = "deadlocked" THEN NoResult
                                 ELSE Panicked("acquire")
           ELSE \* `?` returns the error; the guard is dropped normally
                /\ available_lock' = "free"
                /\ pc' = [pc EXCEPT ![c] = "idle"]
                /\ returned' = ConnectionFailed("acquire")
                /\ UNCHANGED all_connections
    /\ conn' = [conn EXCEPT ![c] = NoConn]
    /\ UNCHANGED <<max_connections, componentVars, overflow_checks, pool_state, available_connections, pool_info,
                   health_status, pool_info_lock, idx, held, monitorVars,
                   acquires, recoveries, database>>

(***************************************************************************)
(* acquire_connection after the sleep (lines 156-160): a read lock, and    *)
(* `available.last()` cloned; the vector is left as it is.                 *)
(***************************************************************************)
AcquireRetry(c) ==
    /\ pc[c] = "acq_wait"
    /\ AvailableLockReturns
    /\ IF available_lock = "poisoned"
       THEN /\ pc' = [pc EXCEPT ![c] = "panicked"]
            /\ returned' = Panicked("acquire")
            /\ UNCHANGED conn
       ELSE IF available_connections # <<>>
       THEN /\ pc' = [pc EXCEPT ![c] = "acq_retry_info"]
            /\ conn' = [conn EXCEPT ![c] = Last(available_connections)]
            /\ returned' = NoResult
       ELSE /\ pc' = [pc EXCEPT ![c] = "acq_exhausted"]
            /\ returned' = NoResult
            /\ UNCHANGED conn
    /\ UNCHANGED <<max_connections, componentVars, overflow_checks, poolVars, idx, held, monitorVars, historyVars>>

\* Lines 162-169: the counters, then Ok(connection).
AcquireRetryInfo(c) ==
    /\ pc[c] = "acq_retry_info"
    /\ \E mode \in OverflowModes :
       LET counted == AcquireCounters(pool_info, mode) IN
       IF pool_info_lock = "poisoned"
       THEN /\ pc' = [pc EXCEPT ![c] = "panicked"]
            /\ returned' = Panicked("acquire")
            /\ UNCHANGED <<pool_info, pool_info_lock, held, overflow_checks>>
       ELSE IF counted.panic
       THEN /\ pool_info' = counted.info
            /\ overflow_checks' = ObservedMode(counted, mode)
            /\ pool_info_lock' = "poisoned"
            /\ pc' = [pc EXCEPT ![c] = "panicked"]
            /\ returned' = Panicked("acquire")
            /\ UNCHANGED held
       ELSE /\ pool_info' = counted.info
            /\ overflow_checks' = ObservedMode(counted, mode)
            /\ held' = [held EXCEPT ![c] = HeldAdd(@, conn[c])]
            /\ pc' = [pc EXCEPT ![c] = "idle"]
            /\ returned' = AcquireOk(FALSE)
            /\ UNCHANGED pool_info_lock
    /\ conn' = [conn EXCEPT ![c] = NoConn]
    /\ UNCHANGED <<max_connections, componentVars, pool_state, available_connections, all_connections,
                   health_status, available_lock, idx, monitorVars, historyVars>>

\* Lines 173-181: the pool is exhausted.
AcquireExhausted(c) ==
    /\ pc[c] = "acq_exhausted"
    /\ IF pool_info_lock = "poisoned"
       THEN /\ pc' = [pc EXCEPT ![c] = "panicked"]
            /\ returned' = Panicked("acquire")
       ELSE /\ pc' = [pc EXCEPT ![c] = "idle"]
            /\ returned' = ResourceLimitExhausted(pool_info.active_connections, max_connections)
    /\ UNCHANGED <<max_connections, componentVars, overflow_checks, poolVars, conn, idx, held, monitorVars,
                   historyVars>>


(***************************************************************************)
(* release_connection (lines 185-202).  The handle is moved into the call. *)
(* Healthy: push under the available_connections write lock, which is      *)
(* dropped at the end of the statement; the counters follow in their own   *)
(* critical section.  Unhealthy: replace_unhealthy_connection.             *)
(***************************************************************************)
ReleaseCheck(c, id) ==
    /\ pool_state = "ready"
    /\ pc[c] = "idle"
    /\ held[c][id] > 0
    /\ \E timed_out \in ProbeInputs :
        /\ probe_failures' = ProbeCount(timed_out)
        /\ IF ~IsHealthyOrFalse(timed_out)
           THEN /\ pc' = [pc EXCEPT ![c] = "rel_replace"]
                /\ conn' = [conn EXCEPT ![c] = id]
                /\ returned' = NoResult
                /\ UNCHANGED available_connections
           ELSE /\ AvailableLockReturns
                /\ IF available_lock = "poisoned"
                   THEN /\ pc' = [pc EXCEPT ![c] = "panicked"]
                        /\ returned' = Panicked("release")
                        /\ UNCHANGED <<available_connections, conn>>
                   ELSE /\ available_connections' = Push(available_connections, id)
                        /\ pc' = [pc EXCEPT ![c] = "rel_info"]
                        /\ returned' = NoResult
                        /\ UNCHANGED conn
    /\ held' = [held EXCEPT ![c] = HeldRemove(@, id)]
    /\ UNCHANGED <<max_connections, componentVars, overflow_checks, pool_state, all_connections, pool_info,
                   health_status, available_lock, pool_info_lock, idx,
                   monitorVars, acquires, recoveries, database>>

\* Lines 190-195, then Ok(()).
ReleaseInfo(c) ==
    /\ pc[c] = "rel_info"
    /\ \E mode \in OverflowModes :
       LET counted == ReleaseCounters(pool_info, mode) IN
       IF pool_info_lock = "poisoned"
       THEN /\ pc' = [pc EXCEPT ![c] = "panicked"]
            /\ returned' = Panicked("release")
            /\ UNCHANGED <<pool_info, pool_info_lock, overflow_checks>>
       ELSE IF counted.panic
       THEN /\ pool_info' = counted.info
            /\ overflow_checks' = ObservedMode(counted, mode)
            /\ pool_info_lock' = "poisoned"
            /\ pc' = [pc EXCEPT ![c] = "panicked"]
            /\ returned' = Panicked("release")
       ELSE /\ pool_info' = counted.info
            /\ overflow_checks' = ObservedMode(counted, mode)
            /\ pc' = [pc EXCEPT ![c] = "idle"]
            /\ returned' = UnitOk("release")
            /\ UNCHANGED pool_info_lock
    /\ UNCHANGED <<max_connections, componentVars, pool_state, available_connections, all_connections,
                   health_status, available_lock, conn, idx, held, monitorVars,
                   historyVars>>

\* replace_unhealthy_connection from release_connection, lines 206-218:
\* CozoConnection::new, then the swap under the all_connections write lock.
ReleaseReplace(c) ==
    /\ pc[c] = "rel_replace"
    /\ \E timed_out \in ProbeInputs :
        /\ probe_failures' = ProbeCount(timed_out)
        /\ IF ConnectionNewOk(timed_out)
           THEN /\ all_connections' = SwapIn(all_connections, conn[c], FreshId)
                /\ conn' = [conn EXCEPT ![c] = FreshId]
                /\ pc' = [pc EXCEPT ![c] = "rel_replace_push"]
                /\ returned' = NoResult
           ELSE /\ pc' = [pc EXCEPT ![c] = "idle"]
                /\ conn' = [conn EXCEPT ![c] = NoConn]
                /\ returned' = ConnectionFailed("release")
                /\ UNCHANGED all_connections
    /\ UNCHANGED <<max_connections, componentVars, overflow_checks, pool_state, available_connections, pool_info,
                   health_status, available_lock, pool_info_lock, idx, held,
                   monitorVars, acquires, recoveries, database>>

\* replace_unhealthy_connection from release_connection, line 220, then Ok(()).
ReleaseReplacePush(c) ==
    /\ pc[c] = "rel_replace_push"
    /\ AvailableLockReturns
    /\ IF available_lock = "poisoned"
       THEN /\ pc' = [pc EXCEPT ![c] = "panicked"]
            /\ returned' = Panicked("release")
            /\ UNCHANGED available_connections
       ELSE /\ available_connections' = Push(available_connections, conn[c])
            /\ pc' = [pc EXCEPT ![c] = "idle"]
            /\ returned' = UnitOk("release")
    /\ conn' = [conn EXCEPT ![c] = NoConn]
    /\ UNCHANGED <<max_connections, componentVars, overflow_checks, pool_state, all_connections, pool_info,
                   health_status, available_lock, pool_info_lock, idx,
                   held, monitorVars, historyVars>>

(***************************************************************************)
(* simulate_database_failure (lines 275-284): the flag, nothing else.      *)
(***************************************************************************)
SimulateDatabaseFailure(c) ==
    /\ pool_state = "ready"
    /\ pc[c] = "idle"
    /\ health_status' = FALSE
    /\ database' = "down"
    /\ returned' = UnitOk("simulate_database_failure")
    /\ UNCHANGED <<max_connections, componentVars, overflow_checks, pool_state, available_connections,
                   all_connections, pool_info, available_lock, pool_info_lock, pc, conn, idx, held, monitorVars, acquires,
                   recoveries, probe_failures>>

(***************************************************************************)
(* simulate_database_recovery (lines 287-296): the flag, the two clears,   *)
(* then initialize_pool; every statement takes and drops its own lock.     *)
(***************************************************************************)
RecoveryFlag(c) ==
    /\ pool_state = "ready"
    /\ pc[c] = "idle"
    /\ recoveries < MaxRecoveries
    /\ recoveries' = recoveries + 1
    /\ health_status' = TRUE
    /\ database' = "recovering"
    /\ pc' = [pc EXCEPT ![c] = "rec_clear_available"]
    /\ returned' = NoResult
    /\ UNCHANGED <<max_connections, componentVars, overflow_checks, pool_state, available_connections,
                   all_connections, pool_info, available_lock, pool_info_lock, conn, idx, held, monitorVars, acquires,
                   probe_failures>>

RecoveryClearAvailable(c) ==
    /\ pc[c] = "rec_clear_available"
    /\ AvailableLockReturns
    /\ IF available_lock = "poisoned"
       THEN /\ pc' = [pc EXCEPT ![c] = "panicked"]
            /\ returned' = Panicked("simulate_database_recovery")
            /\ UNCHANGED available_connections
       ELSE /\ available_connections' = <<>>
            /\ pc' = [pc EXCEPT ![c] = "rec_clear_all"]
            /\ returned' = NoResult
    /\ UNCHANGED <<max_connections, componentVars, overflow_checks, pool_state, all_connections, pool_info,
                   health_status, available_lock, pool_info_lock, conn,
                   idx, held, monitorVars, historyVars>>

RecoveryClearAll(c) ==
    /\ pc[c] = "rec_clear_all"
    /\ all_connections' = <<>>
    /\ pc' = [pc EXCEPT ![c] = "init_push_all"]
    /\ idx' = [idx EXCEPT ![c] = 0]
    /\ UNCHANGED <<max_connections, componentVars, overflow_checks, pool_state, available_connections, pool_info,
                   health_status, available_lock, pool_info_lock, conn,
                   held, monitorVars, historyVars>>
    /\ returned' = NoResult

\* initialize_pool, lines 108-113 of one iteration: CozoConnection::new, then
\* the push to all_connections.
InitializePushAll(c) ==
    /\ pc[c] = "init_push_all"
    /\ \E timed_out \in ProbeInputs :
        /\ probe_failures' = ProbeCount(timed_out)
        /\ IF ConnectionNewOk(timed_out)
           THEN /\ all_connections' = Push(all_connections, FreshId)
                /\ conn' = [conn EXCEPT ![c] = FreshId]
                /\ pc' = [pc EXCEPT ![c] = "init_push_available"]
                /\ returned' = NoResult
                /\ UNCHANGED idx
           ELSE /\ pc' = [pc EXCEPT ![c] = "idle"]
                /\ idx' = [idx EXCEPT ![c] = 0]
                /\ returned' = ConnectionFailed("simulate_database_recovery")
                /\ UNCHANGED <<all_connections, conn>>
    /\ UNCHANGED <<max_connections, componentVars, overflow_checks, pool_state, available_connections, pool_info,
                   health_status, available_lock, pool_info_lock, held,
                   monitorVars, acquires, recoveries, database>>

\* initialize_pool, line 114 of one iteration, and the loop test.
InitializePushAvailable(c) ==
    /\ pc[c] = "init_push_available"
    /\ AvailableLockReturns
    /\ IF available_lock = "poisoned"
       THEN /\ pc' = [pc EXCEPT ![c] = "panicked"]
            /\ returned' = Panicked("simulate_database_recovery")
            /\ idx' = [idx EXCEPT ![c] = 0]
            /\ UNCHANGED available_connections
       ELSE /\ available_connections' = Push(available_connections, conn[c])
            /\ idx' = [idx EXCEPT ![c] = IF @ + 1 < max_connections THEN @ + 1 ELSE 0]
            /\ pc' = [pc EXCEPT ![c] =
                  IF idx[c] + 1 < max_connections THEN "init_push_all"
                  ELSE "init_set_idle"]
            /\ returned' = NoResult
    /\ conn' = [conn EXCEPT ![c] = NoConn]
    /\ UNCHANGED <<max_connections, componentVars, overflow_checks, pool_state, all_connections, pool_info,
                   health_status, available_lock, pool_info_lock, held,
                   monitorVars, historyVars>>

\* The positions of a caller inside acquire_connection.
AcquirePositions ==
    {"acq_wait", "acq_retry_info", "acq_exhausted", "acq_replace", "deadlocked"}

\* How the recovery that caller `c` completes is recorded: "recovered" when no
\* acquire_connection call of another caller is in progress at that moment,
\* "recovered_busy" when one is.
RecoveredAs(c) ==
    IF \A d \in Callers \ {c} : pc[d] \notin AcquirePositions
    THEN "recovered"
    ELSE "recovered_busy"

\* initialize_pool, lines 117-122, then Ok(()) from simulate_database_recovery.
InitializeSetIdle(c) ==
    /\ pc[c] = "init_set_idle"
    /\ IF pool_info_lock = "poisoned"
       THEN /\ pc' = [pc EXCEPT ![c] = "panicked"]
            /\ returned' = Panicked("simulate_database_recovery")
            /\ UNCHANGED <<pool_info, database>>
       ELSE /\ pool_info' = InitializedIdle(pool_info)
            /\ pc' = [pc EXCEPT ![c] = "idle"]
            /\ returned' = UnitOk("simulate_database_recovery")
            /\ database' = IF database = "recovering"
                            THEN RecoveredAs(c)
                            ELSE database
    /\ UNCHANGED <<max_connections, componentVars, overflow_checks, pool_state,
                   available_connections, all_connections, health_status,
                   available_lock, pool_info_lock, conn, idx, held, monitorVars,
                   acquires, recoveries, probe_failures>>

(***************************************************************************)
(* health_monitor_loop (lines 246-272).  The task ends if a lock it        *)
(* unwraps is poisoned.  mon_pc is "off" before the task is spawned,       *)
(* "tick" before its first cycle, "read_all" inside a cycle and "sleep"    *)
(* between two cycles, the locals then holding what the last cycle read.   *)
(***************************************************************************)
\* A monitor that calls an empty pool healthy.
IsHealthyRatioOrEmpty(available, total) ==
    IF total > 0 THEN 2 * available >= total ELSE TRUE

\* healthy_ratio >= 0.5, with healthy_ratio = 0.0 when total_count = 0.
IsHealthyRatio(available, total) ==
    IF total > 0 THEN 2 * available >= total ELSE FALSE

\* A monitor that empties the vector it counts, as
\* `.write().unwrap().drain(..).count()` would.
Drained(v) == <<>>

\* What `.read().unwrap().len()` leaves of the vector it measures: a read
\* guard gives no way to change it.
ReadLocked(v) == v

MonitorReadAvailable ==
    /\ mon_pc \in {"tick", "sleep"}
    /\ AvailableLockReturns
    /\ IF available_lock = "poisoned"
       THEN /\ mon_pc' = "panicked"
            /\ UNCHANGED <<available_connections, available_count, total_count>>
       ELSE /\ available_count' = Len(available_connections)
            /\ available_connections' = ReadLocked(available_connections)
            /\ total_count' = 0
            /\ mon_pc' = "read_all"
    /\ returned' = NoResult
    /\ UNCHANGED <<max_connections, componentVars, overflow_checks, pool_state,
                   all_connections, pool_info, health_status, available_lock,
                   pool_info_lock, callerVars, historyVars>>

\* Lines 254-262: total_count under the all_connections read lock, then the
\* store of the flag.  The store is folded into this step: between the two no
\* task acts on the value of the flag, and the stores of the simulate_* hooks
\* reach the same states whether they come before this step or inside it.
MonitorReadAllAndStore ==
    /\ mon_pc = "read_all"
    /\ total_count' = Len(all_connections)
    /\ health_status' = IsHealthyRatio(available_count, total_count')
    /\ mon_pc' = "sleep"
    /\ UNCHANGED available_count
    /\ returned' = NoResult
    /\ UNCHANGED <<max_connections, componentVars, overflow_checks, pool_state, available_connections,
                   all_connections, pool_info, available_lock, pool_info_lock,
                   callerVars, historyVars>>

(***************************************************************************)
(* performance_metrics (lines 299-309): the counters under the pool_info   *)
(* read lock and, the guard still alive, the flag through is_healthy().    *)
(***************************************************************************)
\* A utilization that divides the idle count instead of the active one.
IdleRate(info) ==
    IF info.pool_size = 0 THEN <<0, 1>>
    ELSE <<info.idle_connections, info.pool_size>>

\* PoolInfo::utilization_rate: active_connections / pool_size, 0.0 for a pool
\* of size 0.  The f64 quotient is kept as the pair <<dividend, divisor>>.
UtilizationRate(info) ==
    IF info.pool_size = 0 THEN <<0, 1>>
    ELSE <<info.active_connections, info.pool_size>>

\* The ConnectionPoolMetrics struct literal.
ConnectionPoolMetrics(info, healthy) ==
    [active_connections |-> info.active_connections,
     idle_connections   |-> info.idle_connections,
     total_acquired     |-> info.total_acquired,
     total_released     |-> info.total_released,
     utilization_rate   |-> UtilizationRate(info),
     is_healthy         |-> healthy]

\* The step before this one ended a performance_metrics call that returned.
MetricsJustReturned ==
    returned.op = "performance_metrics" /\ returned.outcome = "ok"

\* Number of performance_metrics calls that returned in a row, up to now.
MetricsRun == IF MetricsJustReturned THEN returned.run ELSE 0

\* The ConnectionPoolMetrics value returned; `run` counts the calls in a row.
MetricsOk(metrics, run) ==
    [op |-> "performance_metrics", outcome |-> "ok", used |-> 0, limit |-> 0,
     checked |-> FALSE, metrics |-> metrics, run |-> run]

PerformanceMetrics(c) ==
    /\ pool_state = "ready"
    /\ pc[c] = "idle"
    /\ MetricsRun < MaxMetricsCalls
    /\ IF pool_info_lock = "poisoned"
       THEN /\ pc' = [pc EXCEPT ![c] = "panicked"]
            /\ returned' = Panicked("performance_metrics")
       ELSE /\ returned' = MetricsOk(ConnectionPoolMetrics(pool_info, health_status),
                                     MetricsRun + 1)
            /\ UNCHANGED pc
    /\ UNCHANGED <<max_connections, componentVars, overflow_checks, poolVars,
                   conn, idx, held, monitorVars, historyVars>>

(***************************************************************************)
(* QueryStream (src/src/cozodb/query.rs), the streaming cursor.  Time is   *)
(* the monotonic clock of tokio::time::Instant, in ticks.                  *)
(***************************************************************************)
\* The state of the pool, its callers and its monitor.
poolStateVars == <<max_connections, overflow_checks, poolVars, callerVars,
                   returned, monitorVars, historyVars>>

\* The pool's side of the state, which the cursor and the batch never touch.
poolSideVars == <<poolStateVars, connectionVars, providerVars>>

\* Records are told apart by their id.
RecordIds == 1..MaxRecords

\* The record lists a QueryStream is built over.
RecordLists == UNION {[1..n -> RecordIds] : n \in 0..MaxRecords}

Timeouts == 0..MaxTimeout

\* QueryStream::new(records, timeout) called at time `at`.
QueryStreamNew(records, timeout, at) ==
    [records |-> records, position |-> 0, created_at |-> at, timeout |-> timeout]

\* self.created_at.elapsed() read at time `at`.
Elapsed(s, at) == at - s.created_at

\* An is_valid that still accepts the instant the timeout is reached.
IsValidInclusive(s, at) == Elapsed(s, at) <= s.timeout

\* QueryStream::is_valid.
IsValid(s, at) == Elapsed(s, at) < s.timeout

\* A remaining() that forgets the position.
RemainingTotal(s) == Len(s.records)

\* QueryStream::remaining: records.len().saturating_sub(position).
Remaining(s) ==
    IF Len(s.records) >= s.position THEN Len(s.records) - s.position ELSE 0

\* A poll_next that forgets `self.position += 1`.
SamePosition(position) == position

\* self.position += 1
NextPosition(position) == position + 1

\* self.records[self.position].clone(), position counted from 0.
RecordAt(s) == s.records[s.position + 1]

\* What next() returns; `at` is the reading of the clock during the call.
\* Poll::Ready(Some(Ok(record)))
RecordItem(record, at) == [kind |-> "record", record |-> record, at |-> at]

\* Poll::Ready(Some(Err(CozoError::query_failed("Stream timeout", ..))))
StreamTimeout(at) == [kind |-> "QueryFailed", record |-> 0, at |-> at]

\* Poll::Ready(None)
EndOfStream(at) == [kind |-> "end", record |-> 0, at |-> at]

\* The pool never built; a QueryStream just built beside it, over any record
\* list and with any timeout.
CursorInit ==
    /\ PoolInit
    /\ max_connections = 1
    /\ BatchUnused
    /\ ConnectionUnused
    /\ ProviderUnused
    /\ now = 0
    /\ polled = <<>>
    /\ \E records \in RecordLists, timeout \in Timeouts :
          stream = QueryStreamNew(records, timeout, now)

\* Time passes between two calls.
ClockTick ==
    /\ now < MaxClock
    /\ now' = now + 1
    /\ UNCHANGED <<poolSideVars, stream, polled, batch>>

\* One call to next(): poll_next, which is always Ready.
PollNext ==
    /\ Len(polled) < MaxPolls
    /\ IF ~IsValid(stream, now)
       THEN /\ polled' = Append(polled, StreamTimeout(now))
            /\ UNCHANGED stream
       ELSE IF stream.position < Len(stream.records)
       THEN /\ polled' = Append(polled, RecordItem(RecordAt(stream), now))
            /\ stream' = [stream EXCEPT !.position = NextPosition(@)]
       ELSE /\ polled' = Append(polled, EndOfStream(now))
            /\ UNCHANGED stream
    /\ UNCHANGED <<poolSideVars, now, batch>>

(***************************************************************************)
(* MockDatabaseProvider::execute_batch                                     *)
(* (src/src/layer1/traits/implementations/database.rs).  The failure rate  *)
(* and the samples of the random generator are multiples of 1 / RateScale. *)
(***************************************************************************)
\* with_failure_rate: rate.clamp(0.0, 1.0)
Clamp(rate) == IF rate < 0 THEN 0 ELSE IF rate > RateScale THEN RateScale ELSE rate

\* The rates a test may ask for, some of them outside [0, 1].
RequestedRates == (0 - 1)..(RateScale + 1)

\* rng.gen::<f64>(): a sample of [0, 1).
Samples == 0..(RateScale - 1)

\* simulate_random_failure returns Err.
SimulatedFailure(failure_rate, sample) == failure_rate > 0 /\ sample < failure_rate

\* The locals of execute_batch at the head of its loop; `outcomes` keeps what
\* simulate_random_failure returned for each operation so far.
BatchEntered(total_operations, failure_rate) ==
    [pc |-> "loop", total_operations |-> total_operations,
     failure_rate |-> failure_rate, index |-> 0,
     successful_operations |-> 0, failed_operations |-> 0, errors |-> <<>>,
     outcomes |-> <<>>]

\* A failure branch that records the error and forgets failed_operations.
RecordErrorOnly(b) == [b EXCEPT !.errors = Append(@, b.index)]

\* failed_operations += 1; errors.push(format!("Operation {} failed: ..", index))
CountFailure(b) ==
    [b EXCEPT !.failed_operations = @ + 1, !.errors = Append(@, b.index)]

\* successful_operations += 1
CountSuccess(b) == [b EXCEPT !.successful_operations = @ + 1]

\* The pool never built, no cursor; execute_batch entered with any number of
\* operations, on a provider configured with any failure rate.
BatchInit ==
    /\ PoolInit
    /\ max_connections = 1
    /\ CursorUnused
    /\ ConnectionUnused
    /\ ProviderUnused
    /\ \E total_operations \in 0..MaxOperations, rate \in RequestedRates :
          batch = BatchEntered(total_operations, Clamp(rate))

\* One iteration of the loop over the operations.
BatchOperation ==
    /\ batch.pc = "loop"
    /\ batch.index < batch.total_operations
    /\ \E sample \in Samples :
          LET failure == SimulatedFailure(batch.failure_rate, sample)
              counted == IF failure THEN CountFailure(batch)
                         ELSE CountSuccess(batch)
          IN  batch' = [counted EXCEPT
                           !.index = @ + 1,
                           !.outcomes = Append(@, IF failure THEN "Err" ELSE "Ok")]
    /\ UNCHANGED <<poolSideVars, cursorVars>>

\* After the loop: tracker.check_contract()?, then Ok(result).  The tracker
\* fails when the call took more than twice its budget of one second.
BatchReturn ==
    /\ batch.pc = "loop"
    /\ batch.index = batch.total_operations
    /\ \E over_budget \in BOOLEAN :
          batch' = [batch EXCEPT !.pc = IF over_budget THEN "returned_err"
                                        ELSE "returned_ok"]
    /\ UNCHANGED <<poolSideVars, cursorVars>>

(***************************************************************************)
(* The record operations of CozoConnection (src/src/cozodb/connection.rs). *)
(* Each takes &self and simulates the database; total_query_time, which    *)
(* no property reads, is left out of the statistics.                       *)
(***************************************************************************)
Tables == {"code_records"}

HelloDobby == "fn main() { println!(\"Hello, Dobby!\"); }"

HelloUpdatedDobby == "fn main() { println!(\"Hello, Updated Dobby!\"); }"

CodeRecordIds == {"test-record-1", "test-record-2"}

\* CodeRecord, by its id and content.
CodeRecords == [id : CodeRecordIds, content : {HelloDobby, HelloUpdatedDobby}]

NoRecord == [id |-> "", content |-> ""]

\* The query clauses passed to stream_records: "LIMIT n", by their n.
Limits == {10, 100}

\* One call on the Connection: its arguments, the record it returned
\* (NoRecord when it returned a QueryStream) and the reading of the clock.
Call(op, table, id, record, limit, result, at) ==
    [op |-> op, table |-> table, id |-> id, record |-> record, limit |-> limit,
     result |-> result, at |-> at]

\* record.clone(), with updated_at set; id and content are the argument's.
Stored(record) == record

\* The record get_record_by_id builds, whatever table and id it is given.
SimulatedFound == [id |-> "test-record-1", content |-> HelloDobby]

\* QueryStream::new_mock(count) called at time `at`: records mock-record-0 ..
\* mock-record-(count-1), told apart by their number.
QueryStreamNewMock(count, at) ==
    [records |-> [i \in 1..count |-> i - 1], position |-> 0, created_at |-> at,
     timeout |-> MockTimeout]

\* The pool never built, no cursor, no batch; a Connection just created.
ConnectionInit ==
    /\ PoolInit
    /\ max_connections = 1
    /\ CursorUnused
    /\ BatchUnused
    /\ ConnectionUnused
    /\ ProviderUnused

\* insert_record(table, record)
InsertRecord ==
    /\ Len(calls) < MaxCalls
    /\ \E table \in Tables, record \in CodeRecords :
          calls' = Append(calls, Call("insert_record", table, record.id, record, 0,
                                      Stored(record), now))
    /\ stats' = [stats EXCEPT !.queries_executed = @ + 1,
                              !.records_inserted = @ + 1]
    /\ last_activity' = now
    /\ UNCHANGED <<poolStateVars, providerVars, cursorVars, batch, health, health_checked>>

\* get_record_by_id(table, id)
GetRecordById ==
    /\ Len(calls) < MaxCalls
    /\ \E table \in Tables, id \in CodeRecordIds :
          calls' = Append(calls, Call("get_record_by_id", table, id, NoRecord, 0,
                                      SimulatedFound, now))
    /\ stats' = [stats EXCEPT !.queries_executed = @ + 1,
                              !.records_queried = @ + 1]
    /\ last_activity' = now
    /\ UNCHANGED <<poolStateVars, providerVars, cursorVars, batch, health, health_checked>>

\* update_record(table, record)
UpdateRecord ==
    /\ Len(calls) < MaxCalls
    /\ \E table \in Tables, record \in CodeRecords :
          calls' = Append(calls, Call("update_record", table, record.id, record, 0,
                                      Stored(record), now))
    /\ stats' = [stats EXCEPT !.queries_executed = @ + 1,
                              !.records_updated = @ + 1]
    /\ last_activity' = now
    /\ UNCHANGED <<poolStateVars, providerVars, cursorVars, batch, health, health_checked>>

\* stream_records(table, query_clause): the stream it returns becomes the
\* QueryStream under test.
StreamRecords ==
    /\ Len(calls) < MaxCalls
    /\ \E table \in Tables, limit \in Limits :
          calls' = Append(calls, Call("stream_records", table, "", NoRecord, limit,
                                      NoRecord, now))
    /\ stream' = QueryStreamNewMock(MockStreamCount, now)
    /\ last_activity' = now
    /\ UNCHANGED <<poolStateVars, providerVars, now, polled, batch, stats, health, health_checked>>

(***************************************************************************)
(* CozoConnection::health_check (connection.rs 114-142) on the Connection  *)
(* under test.  The local is_healthy is the result of the probe, which the *)
(* placeholder of line 118 fixes to true; both branches of lines 124-132   *)
(* are translated, the branch for false being what a probe that can fail   *)
(* reaches.  `timed_out` is start_time.elapsed() > connection_timeout.     *)
(***************************************************************************)
\* A failure branch that marks the Connection and forgets `error_count += 1`.
ProbeFailedUncounted(h, at) ==
    [h EXCEPT !.last_check = at, !.is_healthy = FALSE,
              !.last_error = "Health check failed"]

\* Lines 122 and 129-131.
ProbeFailed(h, at) ==
    [h EXCEPT !.last_check = at, !.is_healthy = FALSE,
              !.error_count = WrappingAdd1(@),
              !.last_error = "Health check failed"]

\* Lines 122 and 125-127.
ProbeSucceeded(h, at) ==
    [h EXCEPT !.last_check = at, !.is_healthy = TRUE, !.error_count = 0,
              !.last_error = "None"]

\* What health_check returns (lines 137-141).
HealthCheckResult(timed_out) ==
    IF HealthCheckOk(timed_out) THEN "Ok" ELSE "ConnectionFailed"

\* One health_check of the Connection under test.
HealthCheck ==
    /\ \E is_healthy \in BOOLEAN, timed_out \in BOOLEAN :
          /\ ~is_healthy => health.error_count < MaxErrorCount
          /\ health' = IF is_healthy THEN ProbeSucceeded(health, now)
                       ELSE ProbeFailed(health, now)
          /\ health_checked' = [is_healthy |-> is_healthy, timed_out |-> timed_out,
                                result |-> HealthCheckResult(timed_out)]
    /\ last_activity' = now
    /\ UNCHANGED <<poolStateVars, providerVars, cursorVars, batch, stats, calls>>

(***************************************************************************)
(* MockDatabaseProvider::connect                                           *)
(* (src/src/layer1/traits/implementations/database.rs 390-436), called by  *)
(* several tasks on one shared provider.  `connections` is behind a tokio  *)
(* Mutex that connect locks twice: each locked section is one step.  A     *)
(* connection string is the sequence of its parts.                         *)
(***************************************************************************)
\* The connection strings a test may give.
ConnectionStrings == {<<>>, <<"mock">>, <<"mock", "://", "test">>}

\* validate_connection_string returns Ok: the string is not empty and
\* contains "://".
ValidConnectionString(s) ==
    /\ s # <<>>
    /\ \E i \in 1..Len(s) : s[i] = "://"

\* The MockConnectionState literal of lines 425-430.
MockConnectionState(id) == [id |-> id, active |-> TRUE, query_count |-> 0]

\* Line 404 negated: connect goes on to create the connection.
BelowLimit(p) == ~(Len(p.connections) >= p.max_connections)

\* A provider built by a test, three tasks about to call connect on it.
ProviderInit ==
    /\ PoolInit
    /\ max_connections = 1
    /\ CursorUnused
    /\ BatchUnused
    /\ ConnectionUnused
    /\ \E s \in ConnectionStrings, rate \in RequestedRates,
          max \in 0..MaxProviderConnections :
          provider = MockDatabaseProvider(s, Clamp(rate), max)
    /\ connect = [t \in ConnectTasks |-> NotConnecting]

\* Lines 391-400: the simulated latency, simulate_random_failure and
\* validate_connection_string; either may return early through `?`.
ConnectValidate(t) ==
    /\ connect[t].pc = "idle"
    /\ \E sample \in Samples :
          connect' = [connect EXCEPT ![t] =
              IF SimulatedFailure(provider.failure_rate, sample)
              THEN [@ EXCEPT !.pc = "returned", !.returned = "ConnectionFailed"]
              ELSE IF ~ValidConnectionString(provider.connection_string)
              THEN [@ EXCEPT !.pc = "returned",
                             !.returned = "InvalidConnectionString"]
              ELSE [@ EXCEPT !.pc = "check"]]
    /\ UNCHANGED <<provider, poolStateVars, cursorVars, batch, connectionVars>>

\* Lines 403-410: the limit test under the first lock, released at line 410
\* (or by the early return).
ConnectCheckLimit(t) ==
    /\ connect[t].pc = "check"
    /\ connect' = [connect EXCEPT ![t] =
          IF BelowLimit(provider)
          THEN [@ EXCEPT !.pc = "register"]
          ELSE [@ EXCEPT !.pc = "returned", !.returned = "ResourceExhaustion"]]
    /\ UNCHANGED <<provider, poolStateVars, cursorVars, batch, connectionVars>>

\* Lines 412-435: the connection is created with a fresh id, pushed under the
\* second lock, and check_contract decides the result: `late` is
\* elapsed > expected_max * 2 (line 513).
ConnectRegister(t) ==
    /\ connect[t].pc = "register"
    /\ provider' = [provider EXCEPT
                       !.connections = Append(@, MockConnectionState(t))]
    /\ \E late \in BOOLEAN :
          connect' = [connect EXCEPT ![t] =
              [pc |-> "returned",
               returned |-> IF late THEN "MockError" ELSE "Ok",
               id |-> t]]
    /\ UNCHANGED <<poolStateVars, cursorVars, batch, connectionVars>>

(***************************************************************************)
(* The specification.                                                      *)
(***************************************************************************)
\* The steps of construction and of the callers.
CallersNext ==
    \/ New
    \/ \E c \in Callers : AcquireFirst(c)
    \/ \E c \in Callers : AcquireReplace(c)
    \/ \E c \in Callers : AcquireRetry(c)
    \/ \E c \in Callers : AcquireRetryInfo(c)
    \/ \E c \in Callers : AcquireExhausted(c)
    \/ \E c \in Callers : \E id \in ConnIds : ReleaseCheck(c, id)
    \/ \E c \in Callers : ReleaseInfo(c)
    \/ \E c \in Callers : ReleaseReplace(c)
    \/ \E c \in Callers : ReleaseReplacePush(c)
    \/ \E c \in Callers : SimulateDatabaseFailure(c)
    \/ \E c \in Callers : RecoveryFlag(c)
    \/ \E c \in Callers : RecoveryClearAvailable(c)
    \/ \E c \in Callers : RecoveryClearAll(c)
    \/ \E c \in Callers : InitializePushAll(c)
    \/ \E c \in Callers : InitializePushAvailable(c)
    \/ \E c \in Callers : InitializeSetIdle(c)

Next ==
    \/ CallersNext
    \/ MonitorReadAvailable
    \/ MonitorReadAllAndStore

Spec == Init /\ [][Next]_vars

\* The behaviours in which the health monitor, which sleeps for
\* health_check_interval between two cycles, is not scheduled.  The monitor
\* writes health_status and its own locals only, and no caller reads
\* health_status, so the vectors, the counters, the locks and the callers
\* take the same values in these behaviours as in all of them.
CallersSpec == Init /\ [][CallersNext]_vars

\* One caller task using the pool while the health monitor runs.  With one
\* caller nothing refills the available set during the wait of an acquire,
\* so its retry finds the set empty and lines 162-169 are never reached.
MonitoredNext ==
    \/ New
    \/ AcquireFirst(1)
    \/ AcquireReplace(1)
    \/ AcquireRetry(1)
    \/ AcquireExhausted(1)
    \/ \E id \in ConnIds : ReleaseCheck(1, id)
    \/ ReleaseInfo(1)
    \/ ReleaseReplace(1)
    \/ ReleaseReplacePush(1)
    \/ SimulateDatabaseFailure(1)
    \/ RecoveryFlag(1)
    \/ RecoveryClearAvailable(1)
    \/ RecoveryClearAll(1)
    \/ InitializePushAll(1)
    \/ InitializePushAvailable(1)
    \/ InitializeSetIdle(1)
    \/ MonitorReadAvailable
    \/ MonitorReadAllAndStore

MonitoredSpec == Init /\ [][MonitoredNext]_vars

\* acquire_connection called by a task that holds no Connection.
LoopAcquire(c) ==
    /\ HandleCount(held[c]) = 0
    /\ AcquireFirst(c)

\* The callers of the load tests: each loops acquire, operate, release, holding
\* at most one Connection at a time, and none calls a test hook.
LoopingNext ==
    \/ New
    \/ \E c \in Callers : LoopAcquire(c)
    \/ \E c \in Callers : AcquireReplace(c)
    \/ \E c \in Callers : AcquireRetry(c)
    \/ \E c \in Callers : AcquireRetryInfo(c)
    \/ \E c \in Callers : AcquireExhausted(c)
    \/ \E c \in Callers : \E id \in ConnIds : ReleaseCheck(c, id)
    \/ \E c \in Callers : ReleaseInfo(c)
    \/ \E c \in Callers : ReleaseReplace(c)
    \/ \E c \in Callers : ReleaseReplacePush(c)

LoopingSpec == Init /\ [][LoopingNext]_vars

\* The callers, with performance_metrics among their operations.
MetricsNext ==
    \/ CallersNext
    \/ \E c \in Callers : PerformanceMetrics(c)

MetricsSpec == Init /\ [][MetricsNext]_vars

\* A QueryStream and its consumer.
CursorNext ==
    \/ ClockTick
    \/ PollNext

CursorSpec == CursorInit /\ [][CursorNext]_vars

\* One execute_batch call.
BatchNext ==
    \/ BatchOperation
    \/ BatchReturn

BatchSpec == BatchInit /\ [][BatchNext]_vars

\* One CozoConnection and its user.
ConnectionNext ==
    \/ ClockTick
    \/ InsertRecord
    \/ GetRecordById
    \/ UpdateRecord
    \/ StreamRecords

ConnectionSpec == ConnectionInit /\ [][ConnectionNext]_vars

\* One CozoConnection and the health checks made of it.
HealthNext ==
    \/ ClockTick
    \/ HealthCheck

HealthSpec == ConnectionInit /\ [][HealthNext]_vars

\* One MockDatabaseProvider and the tasks that call connect on it.
ProviderNext ==
    \E t \in ConnectTasks :
        \/ ConnectValidate(t)
        \/ ConnectCheckLimit(t)
        \/ ConnectRegister(t)

ProviderSpec == ProviderInit /\ [][ProviderNext]_vars

(***************************************************************************)
(* Vocabulary of the properties.                                           *)
(***************************************************************************)
\* The callers holding a handle to Connection `id`.
Holders(id) == {c \in Callers : held[c][id] > 0}

\* Number of handles to Connection `id` in the hands of callers.
RECURSIVE HandlesOfIdFirst(_, _)
HandlesOfIdFirst(id, n) ==
    IF n = 0 THEN 0 ELSE held[n][id] + HandlesOfIdFirst(id, n - 1)

HandlesOfId(id) == HandlesOfIdFirst(id, NumCallers)

\* Number of handles returned by acquire_connection and not yet passed to
\* release_connection, over all callers.
RECURSIVE HandlesOfFirst(_)
HandlesOfFirst(n) ==
    IF n = 0 THEN 0 ELSE HandleCount(held[n]) + HandlesOfFirst(n - 1)

HandlesOut == HandlesOfFirst(NumCallers)

\* No call on the pool is in progress and none was cut short: every call made
\* has returned to its caller.
AllCallsReturned == \A c \in Callers : pc[c] = "idle"

\* No release_connection call is in progress.
NoReleaseInProgress ==
    \A c \in Callers : pc[c] \notin {"rel_info", "rel_replace", "rel_replace_push"}

\* simulate_database_failure was called and no simulate_database_recovery since.
DatabaseDown == database = "down"

\* The last hook called was simulate_database_recovery, and it returned Ok.
RecoveryCompleted == database \in {"recovered", "recovered_busy"}

\* ... and every acquire_connection call in progress or returned since began
\* after it returned.
RecoveryCompletedAtRest == database = "recovered"

\* Every Connection the pool owns is in the hands of a caller.
AllOwnedHeld ==
    /\ Len(all_connections) = max_connections
    /\ \A id \in Ids(all_connections) : Holders(id) # {}

(***************************************************************************)
(* Properties.                                                             *)
(***************************************************************************)
\* C1: in every state of a constructed pool, active_connections +
\* idle_connections equals the number of owned Connections, and that number
\* is at most max_connections.
C1_ActivePlusIdleIsOwned ==
    pool_state = "ready" =>
        /\ pool_info.active_connections + pool_info.idle_connections
              = Len(all_connections)
        /\ Len(all_connections) <= max_connections

\* C2: no Connection is held by two handles at once, and a Connection some
\* caller holds is not in the available set.
C2_HeldExclusively ==
    \A id \in ConnIds :
        /\ HandlesOfId(id) <= 1
        /\ Holders(id) # {} => id \notin Ids(available_connections)

\* C3: an acquire that returns a Connection ran the health check on it in
\* the same call, on the first attempt and on the retry alike.
C3_ReturnedAfterHealthCheck ==
    (returned.op = "acquire" /\ returned.outcome = "ok") => returned.checked

\* C4: an acquire that finds the pool exhausted while every one of the
\* max_connections owned Connections is held by a caller, no release under
\* way, reports used = max_connections and limit = max_connections.
C4_ExhaustedReportsMax ==
    (/\ returned.outcome = "ResourceLimitExhausted"
     /\ AllOwnedHeld
     /\ NoReleaseInProgress) =>
        /\ returned.used = max_connections
        /\ returned.limit = max_connections

\* C5: every acquire call terminates, with a Connection or with
\* ResourceLimitExhausted: no caller is ever left blocked inside acquire, and
\* acquire ends in no other way.
C5_AcquireTerminates ==
    /\ \A c \in Callers : pc[c] # "deadlocked"
    /\ returned.op = "acquire" =>
          returned.outcome \in {"ok", "ResourceLimitExhausted"}

\* Every Connection an acquire returned has been released, every call made
\* has returned, and no failure was injected: no recovery reset the pool and
\* no health check timed out.
AcquiredThenReleasedAll ==
    /\ pool_state = "ready"
    /\ recoveries = 0
    /\ probe_failures = 0
    /\ AllCallsReturned
    /\ HandlesOut = 0

\* C6: after n successful acquires and the n matching releases, no failure
\* injected, whatever the interleaving of the callers, active_connections is
\* 0 and idle_connections is max_connections.
C6_RoundTripRestoresCounters ==
    AcquiredThenReleasedAll =>
        /\ pool_info.active_connections = 0
        /\ pool_info.idle_connections = max_connections
        /\ pool_info.total_released = pool_info.total_acquired

\* C6 witness: MaxAcquires acquires returned a Connection, in a pool of the
\* largest size, and all were released.
C6_AllAcquiredAndReleased ==
    /\ AcquiredThenReleasedAll
    /\ max_connections = MaxPoolSize
    /\ pool_info.total_acquired = MaxAcquires
    /\ pool_info.total_released = MaxAcquires

\* C7: whenever no call is in progress, every call made having returned,
\* active_connections is the number of Connections returned by acquire and
\* not yet released.
C7_ActiveCountsHandles ==
    (pool_state = "ready" /\ AllCallsReturned) =>
        pool_info.active_connections = HandlesOut

\* The pool as CozoConnectionPool::new returned it: no caller has called
\* anything on it yet.
FreshlyConstructed ==
    /\ pool_state = "ready"
    /\ acquires = 0
    /\ recoveries = 0
    /\ database = "up"
    /\ AllCallsReturned

\* C8: right after construction with max_connections = N the pool is
\* healthy, active_connections is 0, max_connections() is N, the owned and the
\* available set hold N Connections each, and idle_connections is N.
C8_ConstructedPool ==
    FreshlyConstructed =>
        /\ health_status
        /\ pool_info.active_connections = 0
        /\ pool_info.pool_size = max_connections
        /\ Len(all_connections) = max_connections
        /\ Len(available_connections) = max_connections
        /\ Ids(available_connections) = Ids(all_connections)
        /\ Cardinality(Ids(all_connections)) = max_connections
        /\ pool_info.idle_connections = max_connections

\* C8 witness: a pool of the largest size, just constructed.
C8_ConstructedLargestPool ==
    /\ FreshlyConstructed
    /\ max_connections = MaxPoolSize
    /\ Len(all_connections) = MaxPoolSize

\* C9: between simulate_database_failure and simulate_database_recovery no
\* acquire returns a Connection.
C9_AcquireFailsWhileDown ==
    (DatabaseDown /\ returned.op = "acquire") => returned.outcome # "ok"

\* C10: after simulate_database_recovery has completed, acquire succeeds
\* whenever a Connection is available, and once every held Connection has
\* been released active_connections is back at 0.
C10_RecoveredPoolServes ==
    /\ RecoveryCompletedAtRest =>
          /\ \A c \in Callers : pc[c] # "deadlocked"
          /\ returned.op = "acquire" =>
                returned.outcome \in {"ok", "ResourceLimitExhausted"}
    /\ (RecoveryCompleted /\ AllCallsReturned /\ HandlesOut = 0) =>
          pool_info.active_connections = 0

(***************************************************************************)
(* Properties of the cursor.                                               *)
(***************************************************************************)
\* The i-th call to next() was made once the timeout had elapsed.
PolledLate(i) == Elapsed(stream, polled[i].at) >= stream.timeout

\* The i-th call to next() is the first made once the timeout had elapsed.
FirstPolledLate(i) ==
    PolledLate(i) /\ \A j \in 1..(i - 1) : ~PolledLate(j)

\* C11: of the calls to next() made once the timeout has elapsed, the first
\* returns the timeout error and every later one signals end-of-stream.
C11_TimeoutErrorOnce ==
    \A i \in 1..Len(polled) :
        PolledLate(i) =>
            IF FirstPolledLate(i)
            THEN polled[i].kind = "QueryFailed"
            ELSE polled[i].kind = "end"

\* C12: a call to next() made once the timeout has elapsed never yields a
\* record, whatever is left unconsumed, and when it is the first call on the
\* cursor it returns the QueryFailed timeout error.
C12_NoRecordAfterTimeout ==
    \A i \in 1..Len(polled) :
        PolledLate(i) =>
            /\ polled[i].kind # "record"
            /\ i = 1 => polled[i].kind = "QueryFailed"

\* C12 witness: a cursor with a positive timeout, first queried after it, and
\* queried again, records still unconsumed.
C12_FirstQueriedLate ==
    /\ stream.timeout > 0
    /\ Len(polled) >= 2
    /\ PolledLate(1)
    /\ Remaining(stream) > 0

\* C13: while the timeout has not elapsed, the i-th call to next() yields the
\* i-th record of the list, and every call past the end of the list signals
\* end-of-stream; once end-of-stream was signalled remaining() is 0.
C13_YieldsAllInOrder ==
    /\ \A i \in 1..Len(polled) :
          ~PolledLate(i) =>
              IF i <= Len(stream.records)
              THEN /\ polled[i].kind = "record"
                   /\ polled[i].record = stream.records[i]
              ELSE polled[i].kind = "end"
    /\ (\E i \in 1..Len(polled) : polled[i].kind = "end") => Remaining(stream) = 0

\* C13 witness: a cursor over MaxRecords different records, consumed to the
\* end before its timeout.
C13_ConsumedToTheEnd ==
    /\ Len(stream.records) = MaxRecords
    /\ stream.records[1] # stream.records[MaxRecords]
    /\ Len(polled) > MaxRecords
    /\ polled[MaxRecords + 1].kind = "end"
    /\ \A i \in 1..Len(polled) : ~PolledLate(i)

(***************************************************************************)
(* Properties of the health monitor.                                       *)
(***************************************************************************)
\* The test hooks were never called and no health check timed out.
NoFailureInjected ==
    /\ database = "up"
    /\ recoveries = 0
    /\ probe_failures = 0

\* C14: while no failure is injected the pool-healthy flag stays true, however
\* many Connections are out on loan: no monitor cycle sets it to false.
C14_BusyPoolStaysHealthy ==
    (pool_state = "ready" /\ NoFailureInjected) => health_status

\* C15: the monitor cycle that reads available_count and total_count stores
\* true in the pool-healthy flag when total_count > 0 and
\* 2 * available_count >= total_count, and false otherwise.
C15_FlagFollowsRatio ==
    [][MonitorReadAllAndStore =>
          /\ total_count' = Len(all_connections)
          /\ health_status' = (/\ total_count' # 0
                               /\ 2 * available_count' >= total_count')]_vars

\* C15 witness: a cycle has completed that found the owned set empty.
C15_CycleReadEmptyPool ==
    /\ mon_pc = "sleep"
    /\ total_count = 0
    /\ ~health_status

(***************************************************************************)
(* Properties of performance_metrics.                                      *)
(***************************************************************************)
\* The snapshot the claim describes, read off the pool's state.
SnapshotOfPool ==
    [active_connections |-> pool_info.active_connections,
     idle_connections   |-> pool_info.idle_connections,
     total_acquired     |-> pool_info.total_acquired,
     total_released     |-> pool_info.total_released,
     utilization_rate   |-> <<pool_info.active_connections, max_connections>>,
     is_healthy         |-> health_status]

\* C16: a performance_metrics call changes nothing of the pool; the value
\* it returns is the snapshot of the pool's state (active, idle, totals,
\* utilization = active / max, healthy flag), and a call that follows
\* another with no step of any task between returns the same value.
C16_MetricsIsPureSnapshot ==
    [][(\E c \in Callers : PerformanceMetrics(c)) =>
          /\ UNCHANGED <<max_connections, poolVars, held, historyVars>>
          /\ returned'.outcome = "ok" =>
                /\ returned'.metrics = SnapshotOfPool
                /\ MetricsJustReturned => returned'.metrics = returned.metrics]_vars

\* C16 witness: MaxMetricsCalls calls in a row have returned, on a pool with
\* Connections out on loan.
C16_CalledTwiceInARow ==
    /\ MetricsJustReturned
    /\ returned.run = MaxMetricsCalls
    /\ pool_info.active_connections > 0
    /\ pool_info.idle_connections > 0

(***************************************************************************)
(* Properties of construction.                                             *)
(***************************************************************************)
\* C17: when a CozoConnection::new of initialize_pool fails, new returns
\* that error and nothing else ever happens: no pool is handed to a caller,
\* so no call is made on it, and the health monitor is not started.  A
\* monitor only ever runs beside a pool that new returned.
C17_ConstructionFailsFast ==
    /\ pool_state = "failed" =>
          /\ returned = ConnectionFailed("new")
          /\ mon_pc = "off"
          /\ health_status
          /\ pool_info = PoolInfoNew(max_connections)
          /\ AllCallsReturned
          /\ HandlesOut = 0
          /\ acquires = 0
          /\ recoveries = 0
    /\ mon_pc # "off" => pool_state = "ready"

\* C17 witness: construction of a pool of the largest size failed at its
\* last Connection, the Connections before it already created.
C17_FailedAtLastConnection ==
    /\ pool_state = "failed"
    /\ max_connections = MaxPoolSize
    /\ Len(all_connections) = MaxPoolSize - 1
    /\ probe_failures = 1

(***************************************************************************)
(* Properties of ownership.                                                *)
(***************************************************************************)
\* C18: in every state, every Connection a caller holds is a member of the
\* owned set.
C18_HeldStaysOwned ==
    \A id \in ConnIds : Holders(id) # {} => id \in Ids(all_connections)

(***************************************************************************)
(* Properties of the pool under load.                                      *)
(***************************************************************************)
\* There are no more caller tasks than Connections, and every health check
\* made so far returned in time.
CallersWithinCapacity ==
    /\ pool_state = "ready"
    /\ NumCallers <= max_connections
    /\ probe_failures = 0

OperationsWith(outcome) ==
    {i \in 1..Len(batch.outcomes) : batch.outcomes[i] = outcome}

\* C20: in the BatchResult an execute_batch call returns, whatever the
\* failure rate, successful_operations + failed_operations equals
\* total_operations; successful_operations counts exactly the operations that
\* did not fail and failed_operations exactly those that did, each of which
\* left one error.  The sum equals the operations handled all along the loop.
C20_EveryOperationCounted ==
    /\ batch.pc \in {"loop", "returned_ok"} =>
          batch.successful_operations + batch.failed_operations = batch.index
    /\ batch.pc = "returned_ok" =>
          /\ batch.successful_operations + batch.failed_operations
                = batch.total_operations
          /\ batch.successful_operations = Cardinality(OperationsWith("Ok"))
          /\ batch.failed_operations = Cardinality(OperationsWith("Err"))
          /\ Len(batch.errors) = batch.failed_operations
          /\ {batch.errors[i] + 1 : i \in 1..Len(batch.errors)} = OperationsWith("Err")

\* C20 witness: a batch of MaxOperations operations has returned its result,
\* some operations failed and some not.
C20_MixedBatchReturned ==
    /\ batch.pc = "returned_ok"
    /\ batch.total_operations = MaxOperations
    /\ batch.failed_operations > 0
    /\ batch.successful_operations > 0


(***************************************************************************)
(* Claims about the record operations of CozoConnection.                   *)
(***************************************************************************)
\* The number of calls of one entry point made so far.
CallsOf(op) == Cardinality({i \in 1..Len(calls) : calls[i].op = op})

\* C21: each call of insert_record, get_record_by_id, update_record and
\* stream_records adds exactly one to queries_executed and one to the counter
\* of its kind, and sets last_activity to the clock's reading during the call:
\* at any time the statistics count the calls made and last_activity is the
\* time of the last one.  (ConnectionStats has no counter of its own for
\* stream_records; records_queried may or may not count it.)
C21_EveryEntryPointCounted ==
    /\ stats.queries_executed = Len(calls)
    /\ stats.records_inserted = CallsOf("insert_record")
    /\ stats.records_updated = CallsOf("update_record")
    /\ stats.records_queried \in
          {CallsOf("get_record_by_id"),
           CallsOf("get_record_by_id") + CallsOf("stream_records")}
    /\ calls # <<>> => last_activity = Last(calls).at

\* C22: a get_record_by_id(table, r.id) that follows a successful
\* insert_record(table, r) returns a record with r's id and r's content.
C22_InsertThenFetch ==
    \A i \in 2..Len(calls) :
        /\ calls[i - 1].op = "insert_record"
        /\ calls[i].op = "get_record_by_id"
        /\ calls[i].table = calls[i - 1].table
        /\ calls[i].id = calls[i - 1].record.id
        => /\ calls[i].result.id = calls[i - 1].record.id
           /\ calls[i].result.content = calls[i - 1].record.content

\* C23: the stream that stream_records returns for the clause "LIMIT n" has
\* exactly n records to yield before its end.
C23_StreamYieldsLimit ==
    calls # <<>> /\ Last(calls).op = "stream_records"
    => Remaining(stream) = Last(calls).limit

(***************************************************************************)
(* Claims about replacement, atomicity and the counters of the pool.       *)
(***************************************************************************)
\* The step of caller c in which the replace_unhealthy_connection called from
\* acquire_connection ends, its CozoConnection::new having succeeded.
AcquireReplaced(c) ==
    /\ pc[c] = "acq_replace"
    /\ pc'[c] # "acq_replace"
    /\ returned'.outcome # "ConnectionFailed"

\* C24: when the Connection acquire popped fails its health check and the
\* replacement is created, the unhealthy Connection leaves the owned set, the
\* replacement enters the owned set and the available set, the caller is not
\* handed the unhealthy Connection, and the call goes on: it neither blocks
\* on the pool's own lock nor panics.
C24_UnhealthyPopReplaced ==
    [][\A c \in Callers :
          AcquireReplaced(c) =>
              /\ pc'[c] \notin {"deadlocked", "panicked"}
              /\ conn[c] \notin Ids(all_connections')
              /\ held'[c][conn[c]] = held[c][conn[c]]
              /\ available_connections' # <<>>
              /\ Last(available_connections') \in Ids(all_connections')
              /\ Last(available_connections') \notin Ids(all_connections)]_vars

\* C25: acquire, release and replace each change the available set and the
\* counters in one atomic step: in no state that another task can observe
\* (the available_connections lock being free, no test hook having touched
\* the pool) does idle_connections differ from the size of the available set.
C25_IdleIsAvailableSize ==
    (/\ pool_state = "ready"
     /\ database = "up"
     /\ available_lock = "free") =>
        pool_info.idle_connections = Len(available_connections)

\* C26: no acquire and no release subtracts from idle_connections or
\* active_connections when it is 0.  Every release of the model gives back a
\* handle an earlier acquire returned; the property is stated for the runs in
\* which no test hook touched the pool and no health check timed out.
C26_CountersNeverUnderflow ==
    (database = "up" /\ probe_failures = 0) => overflow_checks = "unobserved"

\* The step of caller c in which replace_unhealthy_connection, called from
\* release_connection, has created the replacement and swaps it in.
ReleaseSwapped(c) ==
    /\ pc[c] = "rel_replace"
    /\ pc'[c] = "rel_replace_push"

\* The step of caller c in which that call pushes the replacement and returns.
ReleasePushed(c) ==
    /\ pc[c] = "rel_replace_push"
    /\ returned'.outcome = "ok"

\* C27: a replace_unhealthy_connection that creates its replacement leaves
\* the owned set at its size, with the old Connection out of it and the new
\* one in it, and returns with the new Connection owned and available.
C27_ReplacePreservesOwned ==
    [][\A c \in Callers :
          /\ (ReleaseSwapped(c) \/ AcquireReplaced(c)) =>
                /\ Len(all_connections') = Len(all_connections)
                /\ conn[c] \notin Ids(all_connections')
          /\ ReleaseSwapped(c) => conn'[c] \in Ids(all_connections')
          /\ ReleasePushed(c) =>
                /\ conn[c] \in Ids(all_connections')
                /\ conn[c] \in Ids(available_connections')
          /\ AcquireReplaced(c) =>
                \E new \in Ids(all_connections') \ Ids(all_connections) :
                    new \in Ids(available_connections')]_vars

(***************************************************************************)
(* Claims about the monitor's frame, recovery and exhaustion.              *)
(***************************************************************************)
\* A step of the health monitor: it moves on in its cycle, or panics.
MonitorStep ==
    /\ mon_pc \in {"tick", "sleep", "read_all"}
    /\ mon_pc' # mon_pc

\* C28: a step of the health monitor leaves the available set, the owned set
\* and the counters as they are; of the pool's state it writes at most the
\* pool-healthy flag.
C28_MonitorWritesFlagOnly ==
    [][MonitorStep =>
          UNCHANGED <<available_connections, all_connections, pool_info,
                      pool_state, available_lock, pool_info_lock>>]_vars

\* C28 witness: a cycle has completed on a pool whose Connections are all
\* out, and has written false over the flag.
C28_CycleOnBusyPool ==
    /\ mon_pc = "sleep"
    /\ database = "up"
    /\ total_count = max_connections
    /\ available_count = 0
    /\ pool_info.active_connections = max_connections
    /\ available_connections = <<>>
    /\ ~health_status

\* C29: in the state in which simulate_database_recovery returns Ok, the
\* owned set and the available set are the same max_connections distinct
\* Connections, none of them in the hands of a caller or of a call begun
\* before (so none that existed before the recovery), and the pool-healthy
\* flag is true.
C29_RecoveryRebuildsPool ==
    returned = UnitOk("simulate_database_recovery") =>
        /\ Len(all_connections) = max_connections
        /\ Cardinality(Ids(all_connections)) = max_connections
        /\ Len(available_connections) = max_connections
        /\ Ids(available_connections) = Ids(all_connections)
        /\ \A id \in Ids(all_connections) :
              Holders(id) = {} /\ (\A c \in Callers : conn[c] # id)
        /\ health_status

\* C30: acquire returns ResourceLimitExhausted only when the pool is at
\* capacity: every one of the max_connections owned Connections is held by a
\* caller, and the error reports used = limit.
C30_ExhaustedOnlyAtCapacity ==
    returned.outcome = "ResourceLimitExhausted" =>
        /\ AllOwnedHeld
        /\ returned.used = returned.limit

(***************************************************************************)
(* Claims about errors, the health check, the cursor and the counters.     *)
(***************************************************************************)
\* C31: a failed health check inside acquire_connection or
\* release_connection is handled by the pool: acquire returns a Connection
\* or ResourceLimitExhausted and nothing else, and release returns Ok.
C31_HealthFailureStaysInside ==
    /\ returned.op = "acquire" => returned.outcome # "ConnectionFailed"
    /\ returned.op = "release" => returned.outcome # "ConnectionFailed"

\* C32: a health check whose probe succeeded leaves the Connection marked
\* healthy, with error_count 0 and no error message; one whose probe failed
\* leaves it marked unhealthy, with error_count one higher and a message; so
\* the Connection is healthy exactly when its error_count is 0.
C32_HealthyIffNoErrors ==
    [][HealthCheck =>
          /\ IF health_checked'.is_healthy
             THEN /\ health'.is_healthy
                  /\ health'.error_count = 0
                  /\ health'.last_error = "None"
             ELSE /\ ~health'.is_healthy
                  /\ health'.error_count = health.error_count + 1
                  /\ health'.last_error # "None"
          /\ health'.is_healthy <=> health'.error_count = 0]_vars

\* C32 witness: the probe of the last check failed, after others had: the
\* Connection is unhealthy with MaxErrorCount errors counted.
C32_FailedRepeatedly ==
    /\ health_checked.result # "none"
    /\ ~health_checked.is_healthy
    /\ ~health.is_healthy
    /\ health.error_count = MaxErrorCount

\* C33: a health check that exceeds connection_timeout counts as a failed
\* check: it leaves the Connection marked unhealthy, with error_count one
\* higher than before.
C33_TimeoutMarksUnhealthy ==
    [][(HealthCheck /\ health_checked'.timed_out) =>
          /\ ~health'.is_healthy
          /\ health'.error_count = health.error_count + 1]_vars

\* The kinds of item the calls to next() have returned so far.
PolledKinds == {polled[i].kind : i \in 1..Len(polled)}

\* C34: after every call to next() the position is at most the number of
\* records and remaining() is that number minus the position; a call that
\* yields a record lowers remaining() by exactly 1, a call that returns the
\* timeout error or the end of the stream leaves position and remaining()
\* as they were.
C34_RemainingFollowsPosition ==
    [][PollNext =>
          /\ stream'.position <= Len(stream'.records)
          /\ Remaining(stream') = Len(stream'.records) - stream'.position
          /\ IF Last(polled').kind = "record"
             THEN Remaining(stream') = Remaining(stream) - 1
             ELSE /\ stream'.position = stream.position
                  /\ Remaining(stream') = Remaining(stream)]_vars

\* C34 witness: a cursor over MaxRecords records has yielded them all, then
\* the end of the stream, then the timeout error.
C34_AllKindsReturned ==
    /\ Len(stream.records) = MaxRecords
    /\ Remaining(stream) = 0
    /\ PolledKinds = {"record", "end", "QueryFailed"}

\* C35, as the code has it: next() returns the timeout error exactly when
\* now - created_at >= timeout; a call made when the elapsed time equals the
\* timeout already returns the error.
C35_DeadlineIsInclusive ==
    [][PollNext =>
          (Last(polled').kind = "QueryFailed"
              <=> Elapsed(stream, now) >= stream.timeout)]_vars

\* C35, as stated: next() returns the timeout error exactly when
\* now - created_at > timeout, so a call made when the elapsed time equals
\* the timeout still yields the next record or the end of the stream.
C35_DeadlineIsStrict ==
    [][PollNext =>
          (Last(polled').kind = "QueryFailed"
              <=> Elapsed(stream, now) > stream.timeout)]_vars

\* C35 witness: a cursor with a positive timeout and records left was asked
\* at the instant the elapsed time equals the timeout, and returned the error.
C35_AskedAtTheDeadline ==
    /\ stream.timeout > 0
    /\ Remaining(stream) > 0
    /\ \E i \in 1..Len(polled) :
          /\ Elapsed(stream, polled[i].at) = stream.timeout
          /\ polled[i].kind = "QueryFailed"


(***************************************************************************)
(* Liveness of the health signal.                                          *)
(***************************************************************************)
\* The monitor task is a spawned tokio task whose loop only waits for its
\* interval and for the two read locks: the runtime keeps polling it, so each
\* of its two steps is taken if it stays enabled.
FairMonitoredSpec ==
    /\ MonitoredSpec
    /\ WF_vars(MonitorReadAvailable)
    /\ WF_vars(MonitorReadAllAndStore)

\* Every owned Connection is in the available set.
AllOwnedAvailable == Ids(all_connections) \subseteq Ids(available_connections)

\* A step of acquire or of simulate_database_failure.
AcquireOrFailureStep ==
    \/ AcquireFirst(1)
    \/ AcquireReplace(1)
    \/ AcquireRetry(1)
    \/ AcquireExhausted(1)
    \/ SimulateDatabaseFailure(1)

\* C36: if from some point on every owned Connection stays in the available
\* set, with no step of acquire and none of simulate_database_failure, then
\* with the monitor scheduled fairly the pool-healthy flag eventually becomes
\* true and stays true.
C36_FlagEventuallyStaysTrue ==
    (<>[]AllOwnedAvailable /\ <>[][~AcquireOrFailureStep]_vars)
        => <>[]health_status


\* C37: after simulate_database_failure the pool-healthy flag stays false until
\* simulate_database_recovery is called: no monitor cycle in between sets it
\* back to true.
C37_FlagStaysFalseUntilRecovery == database = "down" => ~health_status


(***************************************************************************)
(* Shape of the available list.                                            *)
(***************************************************************************)
\* No Connection occurs twice in the list v.
DuplicateFree(v) == \A i, j \in 1..Len(v) : v[i] = v[j] => i = j

\* C38: the available list is a duplicate-free subset of the owned set, and so
\* has no more than max_connections entries.
C38_AvailableIsSetOfOwned ==
    /\ DuplicateFree(available_connections)
    /\ Ids(available_connections) \subseteq Ids(all_connections)
    /\ Len(available_connections) <= max_connections


(***************************************************************************)
(* The counters of PoolInfo.                                               *)
(***************************************************************************)
\* The handles counted as lent are the acquired ones less the released ones.
CountersBalanced ==
    pool_info.total_acquired - pool_info.total_released
        = pool_info.active_connections

\* Neither total goes down in a step.
TotalsDoNotDecrease ==
    /\ pool_info'.total_acquired >= pool_info.total_acquired
    /\ pool_info'.total_released >= pool_info.total_released

\* C39: in every reachable state total_acquired - total_released equals
\* active_connections, and no step, those of simulate_database_failure and
\* simulate_database_recovery included, decreases either total.
C39_TotalsAccountForActive ==
    []CountersBalanced /\ [][TotalsDoNotDecrease]_vars


(***************************************************************************)
(* The connection limit of the mock provider.                              *)
(***************************************************************************)
\* C40: under every interleaving of concurrent connect calls the provider
\* tracks no more connections than max_connections.
C40_TrackedWithinLimit ==
    Len(provider.connections) <= provider.max_connections

=============================================================================
